---- MODULE Spec2Model ----
(***************************************************************************)
(* Model of confluencetable.py: locating a heading in a wiki-markup page,  *)
(* finding the table after it with a regular expression, parsing it into   *)
(* rows, applying update_fn to every row, rendering the rows back to       *)
(* markup and splicing the markup into the page with re.sub.               *)
(*                                                                         *)
(* A text is a sequence of one-character strings.  Offsets are Python's:   *)
(* offset i is the position before the (i+1)-th character.  The regular    *)
(* expressions are evaluated as Python's backtracking matcher evaluates    *)
(* them: alternatives in priority order, greedy quantifiers from the       *)
(* longest repetition down, lazy quantifiers from the shortest one up.     *)
(***************************************************************************)
EXTENDS Integers, Sequences, FiniteSets, TLC

\* ---------------------------------------------------------------- text

NL == "\n"
SP == " "
BAR == "|"
BSL == "\\"

\* The result of a search that finds nothing (re.search returns None).
Fail == -1

\* Python's \s and str.strip() whitespace, as far as the alphabet has it.
IsSpace(c) == c \in {" ", "\n", "\t", "\r", "\f"}

\* The character at offset i, "" past the end.
At(s, i) == IF 0 <= i /\ i < Len(s) THEN s[i + 1] ELSE ""

\* s[i:j]
Slice(s, i, j) == IF j <= i THEN << >> ELSE SubSeq(s, i + 1, j)

\* The end of the longest run of whitespace that starts at offset i.
RECURSIVE WsEnd(_, _)
WsEnd(s, i) == IF i < Len(s) /\ IsSpace(s[i + 1]) THEN WsEnd(s, i + 1) ELSE i

\* The offset of the first newline at or after offset i.
RECURSIVE NextNewline(_, _)
NextNewline(s, i) ==
    IF i >= Len(s) THEN Fail
    ELSE IF s[i + 1] = NL THEN i
    ELSE NextNewline(s, i + 1)

\* str.strip()
RECURSIVE LStrip(_)
LStrip(s) == IF s # << >> /\ IsSpace(Head(s)) THEN LStrip(Tail(s)) ELSE s

RECURSIVE RStrip(_)
RStrip(s) ==
    IF s # << >> /\ IsSpace(s[Len(s)]) THEN RStrip(SubSeq(s, 1, Len(s) - 1)) ELSE s

Strip(s) == RStrip(LStrip(s))

\* The offset of the first sep at or after offset i, Len(s) when there is none.
RECURSIVE NextSep(_, _, _)
NextSep(s, sep, i) ==
    IF i >= Len(s) THEN Len(s)
    ELSE IF s[i + 1] = sep THEN i
    ELSE NextSep(s, sep, i + 1)

\* str.split(sep) from offset i on: the pieces between the separators, the
\* empty ones kept.
RECURSIVE SplitFrom(_, _, _)
SplitFrom(s, sep, i) ==
    LET j == NextSep(s, sep, i)
    IN IF j >= Len(s) THEN << Slice(s, i, Len(s)) >>
       ELSE << Slice(s, i, j) >> \o SplitFrom(s, sep, j + 1)

Split(s, sep) == SplitFrom(s, sep, 0)

\* sep.join(parts)
RECURSIVE Join(_, _)
Join(sep, parts) ==
    IF parts = << >> THEN << >>
    ELSE IF Len(parts) = 1 THEN parts[1]
    ELSE parts[1] \o sep \o Join(sep, Tail(parts))

\* [x.strip() for x in parts if x.strip()]
RECURSIVE StripNonEmpty(_)
StripNonEmpty(parts) ==
    IF parts = << >> THEN << >>
    ELSE IF Strip(Head(parts)) = << >> THEN StripNonEmpty(Tail(parts))
    ELSE << Strip(Head(parts)) >> \o StripNonEmpty(Tail(parts))

\* ------------------------------------------------------ heading search

HeadingLevels == {"1", "2", "3", "4", "5", "6"}

\* s[i:] starts with the literal text lit (re.escape makes the heading text
\* a literal).
StartsWithAt(s, i, lit) ==
    /\ i + Len(lit) <= Len(s)
    /\ \A k \in 1..Len(lit) : s[i + k] = lit[k]

\* \s*\n with the greedy \s* now ending at offset j, having started at i: the
\* end of the match, Fail when no shorter run leaves a newline to match.
RECURSIVE HeadingWs(_, _, _)
HeadingWs(s, i, j) ==
    IF j < i THEN Fail
    ELSE IF At(s, j) = NL THEN j + 1
    ELSE HeadingWs(s, i, j - 1)

\* h[1-6]\. <heading_text>\s*\n matched at offset i: the end, or Fail.
HeadingBodyAt(s, h, i) ==
    IF /\ At(s, i) = "h"
       /\ At(s, i + 1) \in HeadingLevels
       /\ At(s, i + 2) = "."
       /\ At(s, i + 3) = SP
       /\ StartsWithAt(s, i + 4, h)
    THEN HeadingWs(s, i + 4 + Len(h), WsEnd(s, i + 4 + Len(h)))
    ELSE Fail

\* The heading pattern without its (^|\n): matched anywhere in a line.
HeadingAtUnanchored(s, h, i) == HeadingBodyAt(s, h, i)

\* (^|\n)h[1-6]\. <heading_text>\s*\n matched at offset i: ^ is tried first
\* and holds at offset 0 only, \n second.
HeadingAt(s, h, i) ==
    LET a == IF i = 0 THEN HeadingBodyAt(s, h, 0) ELSE Fail
        b == IF At(s, i) = NL THEN HeadingBodyAt(s, h, i + 1) ELSE Fail
    IN IF a # Fail THEN a ELSE b

\* re.search of the heading pattern from offset i on: the leftmost match as
\* [start, end]; end is Fail when there is no match.
RECURSIVE HeadingSearchFrom(_, _, _)
HeadingSearchFrom(s, h, i) ==
    IF i > Len(s) THEN [start |-> Fail, end |-> Fail]
    ELSE LET e == HeadingAt(s, h, i)
         IN IF e # Fail THEN [start |-> i, end |-> e]
            ELSE HeadingSearchFrom(s, h, i + 1)

HeadingSearch(s, h) == HeadingSearchFrom(s, h, 0)

\* -------------------------------------------------------- table search
\* \|\s*(.*?)\s*\|\|.*?\n((?:\|\s*.*?\s*\|\|.*?\n)+) under re.DOTALL: the dot
\* matches every character, the newline too.

\* What the pattern, or its header part, gives when it does not match.
NoTable == [start |-> Fail, end |-> Fail, g1s |-> Fail, g1e |-> Fail, g2s |-> Fail]

\* Backtracking: the first way r when it matched, the next way otherwise.
OrElse(r, next) == IF r # Fail THEN r ELSE next
OrElseMatch(r, next) == IF r.end # Fail THEN r ELSE next

\* One row, \|\s*.*?\s*\|\|.*?\n, from the last piece back to the first.
\* .*?\n after the double bar, j being the offset of the first newline after
\* it: the lazy dot stops there.
AfterNewline(j) == IF j = Fail THEN Fail ELSE j + 1

RowTail(s, i) == AfterNewline(NextNewline(s, i))

\* The second \s* started at offset i and now ends at j (greedy: longest
\* first), then \|\| and the tail.
RECURSIVE RowWs2(_, _, _)
RowWs2(s, i, j) ==
    IF j < i THEN Fail
    ELSE OrElse(IF At(s, j) = BAR /\ At(s, j + 1) = BAR
                THEN RowTail(s, j + 2) ELSE Fail,
                RowWs2(s, i, j - 1))

\* The lazy .*? now ends at offset i (shortest first).
RECURSIVE RowLazy(_, _)
RowLazy(s, i) ==
    IF i > Len(s) THEN Fail
    ELSE OrElse(RowWs2(s, i, WsEnd(s, i)), RowLazy(s, i + 1))

\* The first \s* started at offset i and now ends at j.
RECURSIVE RowWs1(_, _, _)
RowWs1(s, i, j) ==
    IF j < i THEN Fail
    ELSE OrElse(RowLazy(s, j), RowWs1(s, i, j - 1))

\* The end of the row matched at offset i, or Fail.
RowEnd(s, i) ==
    IF At(s, i) = BAR THEN RowWs1(s, i + 1, WsEnd(s, i + 1)) ELSE Fail

\* (?:row)+ is greedy and nothing follows it in the pattern: it takes rows
\* as long as one matches where the last one ended.  The rows so far end at
\* offset i (Fail: none yet) and r is the end of the row tried there.
RECURSIVE RowsFrom(_, _, _)
RowsFrom(s, i, r) == IF r = Fail THEN i ELSE RowsFrom(s, r, RowEnd(s, r))

\* The end of group 2 matched at offset i, or Fail.
RowsEnd(s, i) == RowsFrom(s, Fail, RowEnd(s, i))

\* Group 2 from offset g2s to offset e.
WithGroup2(g2s, e) ==
    IF e = Fail THEN NoTable
    ELSE [start |-> Fail, end |-> e, g1s |-> Fail, g1e |-> Fail, g2s |-> g2s]

\* The header part. .*?\n after the header's double bar, j being the offset
\* of the newline the lazy dot now stops at, then group 2.
RECURSIVE HdrTailAt(_, _)
HdrTailAt(s, j) ==
    IF j = Fail THEN NoTable
    ELSE OrElseMatch(WithGroup2(j + 1, RowsEnd(s, j + 1)),
                     HdrTailAt(s, NextNewline(s, j + 1)))

HdrTail(s, i) == HdrTailAt(s, NextNewline(s, i))

RECURSIVE HdrWs2(_, _, _)
HdrWs2(s, i, j) ==
    IF j < i THEN NoTable
    ELSE OrElseMatch(IF At(s, j) = BAR /\ At(s, j + 1) = BAR
                     THEN HdrTail(s, j + 2) ELSE NoTable,
                     HdrWs2(s, i, j - 1))

\* Group 1 from offset g to offset e.
WithGroup1(g, e, r) ==
    IF r.end = Fail THEN NoTable ELSE [r EXCEPT !.g1s = g, !.g1e = e]

\* Group 1, (.*?), started at offset g and now ends at i.
RECURSIVE HdrLazy(_, _, _)
HdrLazy(s, g, i) ==
    IF i > Len(s) THEN NoTable
    ELSE OrElseMatch(WithGroup1(g, i, HdrWs2(s, i, WsEnd(s, i))),
                     HdrLazy(s, g, i + 1))

RECURSIVE HdrWs1(_, _, _)
HdrWs1(s, i, j) ==
    IF j < i THEN NoTable
    ELSE OrElseMatch(HdrLazy(s, j, j), HdrWs1(s, i, j - 1))

\* The match that starts at offset i.
WithStart(i, r) == IF r.end = Fail THEN NoTable ELSE [r EXCEPT !.start = i]

\* The whole pattern matched at offset i.
TableAt(s, i) ==
    IF At(s, i) = BAR
    THEN WithStart(i, HdrWs1(s, i + 1, WsEnd(s, i + 1)))
    ELSE NoTable

\* re.search of the table pattern: the leftmost match, as its span
\* [start, end] and the spans of its groups; end is Fail when there is no
\* match.
RECURSIVE TableSearchFrom(_, _)
TableSearchFrom(s, i) ==
    IF i >= Len(s) THEN NoTable
    ELSE OrElseMatch(TableAt(s, i), TableSearchFrom(s, i + 1))

TableSearch(s) == TableSearchFrom(s, 0)

Group1(s, m) == Slice(s, m.g1s, m.g1e)
Group2(s, m) == Slice(s, m.g2s, m.end)

\* ---------------------------------------------------- parsing, rendering

\* dict.get(key, '')
Get(row, key) == IF key \in DOMAIN row THEN row[key] ELSE << >>

\* dict(zip(keys, values)): the pairs up to the shorter length; of two equal
\* keys the later one's value stays.
DictZip(keys, values) ==
    LET n == IF Len(keys) <= Len(values) THEN Len(keys) ELSE Len(values)
        last(k) == CHOOSE i \in 1..n :
                       /\ keys[i] = k
                       /\ \A j \in 1..n : keys[j] = k => j <= i
    IN [k \in {keys[i] : i \in 1..n} |-> values[last(k)]]

\* [x.strip() for x in table_match.group(1).split('|') if x.strip()]
ParseHeaders(g1) == StripNonEmpty(Split(g1, BAR))

\* The rows of lines[i..]: one dict per line that is not blank.
RECURSIVE ParseRowLines(_, _)
ParseRowLines(headers, lines) ==
    IF lines = << >> THEN << >>
    ELSE IF Strip(Head(lines)) = << >> THEN ParseRowLines(headers, Tail(lines))
    ELSE << DictZip(headers, StripNonEmpty(Split(Head(lines), BAR))) >>
         \o ParseRowLines(headers, Tail(lines))

\* [dict(zip(headers, ...)) for row in table_match.group(2).split('\n') if row.strip()]
ParseRows(headers, g2) == ParseRowLines(headers, Split(g2, NL))

\* '|{}|'.format('|'.join([row.get(header, '') for header in headers]))
RenderRow(row, headers) ==
    << BAR >>
    \o Join(<< BAR >>, [i \in 1..Len(headers) |-> Get(row, headers[i])])
    \o << BAR >>

\* '||{}||\n{}'.format('||'.join(headers), '\n'.join([... for row in rows]))
RenderTable(headers, rows) ==
    << BAR, BAR >> \o Join(<< BAR, BAR >>, headers) \o << BAR, BAR, NL >>
    \o Join(<< NL >>, [i \in 1..Len(rows) |-> RenderRow(rows[i], headers)])

\* A row replaced by what update_fn returned instead of merged with it.
DictUpdateReplace(row, updated_row) == updated_row

\* row.update(updated_row)
DictUpdate(row, updated_row) ==
    [k \in DOMAIN row \cup DOMAIN updated_row |->
        IF k \in DOMAIN updated_row THEN updated_row[k] ELSE row[k]]

\* ------------------------------------------- re.sub's replacement template
\* re.sub is given table_markup as a string, so it reads it as a template: a
\* backslash starts an escape.

Digits == {"0", "1", "2", "3", "4", "5", "6", "7", "8", "9"}
OctDigits == {"0", "1", "2", "3", "4", "5", "6", "7"}
DigitVal(c) == CHOOSE n \in 0..9 : ToString(n) = c
AsciiLetters ==
    {"a", "b", "c", "d", "e", "f", "g", "h", "i", "j", "k", "l", "m",
     "n", "o", "p", "q", "r", "s", "t", "u", "v", "w", "x", "y", "z",
     "A", "B", "C", "D", "E", "F", "G", "H", "I", "J", "K", "L", "M",
     "N", "O", "P", "Q", "R", "S", "T", "U", "V", "W", "X", "Y", "Z"}

\* The printable ASCII characters, codes 32 to 126 (the backquote, which a
\* TLA+ string cannot hold, written as its code).
Printable ==
    <<" ", "!", "\"", "#", "$", "%", "&", "'", "(", ")", "*", "+",
       ",", "-", ".", "/", "0", "1", "2", "3", "4", "5", "6", "7",
       "8", "9", ":", ";", "<", "=", ">", "?", "@", "A", "B", "C",
       "D", "E", "F", "G", "H", "I", "J", "K", "L", "M", "N", "O",
       "P", "Q", "R", "S", "T", "U", "V", "W", "X", "Y", "Z", "[",
       "\\", "]", "^", "_", "\\x96", "a", "b", "c", "d", "e", "f", "g",
       "h", "i", "j", "k", "l", "m", "n", "o", "p", "q", "r", "s",
       "t", "u", "v", "w", "x", "y", "z", "{", "|", "}", "~">>

\* The character with code n (chr): a control or non-ASCII character other
\* than the four named ones is written \x and its code.
Chr(n) ==
    CASE n = 9 -> "\t" [] n = 10 -> "\n" [] n = 12 -> "\f" [] n = 13 -> "\r"
      [] n >= 32 /\ n <= 126 -> Printable[n - 31]
      [] OTHER -> "\\x" \o ToString(n)

\* The letters the template knows as escapes, with the codes they stand for.
EscapeCodes == [a |-> 7, b |-> 8, f |-> 12, n |-> 10, r |-> 13, t |-> 9, v |-> 11]

\* The number of groups of the table pattern.
PatternGroups == 2

\* The template t expanded from offset i on, with the texts of the match's
\* groups: [ok, text]; ok is FALSE when re.sub raises re.error.
RECURSIVE ExpandFrom(_, _, _)
ExpandFrom(t, groups, i) ==
    LET bad == [ok |-> FALSE, text |-> << >>]
        c == At(t, i + 1)
        \* the rest expanded from offset j on, after the text pre
        then(pre, j) ==
            LET r == ExpandFrom(t, groups, j)
            IN IF r.ok THEN [ok |-> TRUE, text |-> pre \o r.text] ELSE bad
        ref(n, j) ==
            IF n >= 1 /\ n <= PatternGroups THEN then(groups[n], j) ELSE bad
    IN IF i >= Len(t) THEN [ok |-> TRUE, text |-> << >>]
       ELSE IF t[i + 1] # BSL THEN then(<< t[i + 1] >>, i + 1)
       \* a backslash that ends the template: bad escape (end of pattern)
       ELSE IF i + 1 >= Len(t) THEN bad
       \* \g<name>: the alphabet has no "<", so "missing <"
       ELSE IF c = "g" THEN bad
       ELSE IF c = "0" THEN
            IF At(t, i + 2) \in OctDigits
            THEN IF At(t, i + 3) \in OctDigits
                 THEN then(<< Chr((DigitVal(At(t, i + 2)) * 8
                                   + DigitVal(At(t, i + 3))) % 256) >>, i + 4)
                 ELSE then(<< Chr(DigitVal(At(t, i + 2))) >>, i + 3)
            ELSE then(<< Chr(0) >>, i + 2)
       ELSE IF c \in Digits THEN
            IF At(t, i + 2) \in Digits
            THEN IF /\ c \in OctDigits
                    /\ At(t, i + 2) \in OctDigits
                    /\ At(t, i + 3) \in OctDigits
                 THEN LET n == DigitVal(c) * 64 + DigitVal(At(t, i + 2)) * 8
                                + DigitVal(At(t, i + 3))
                      IN IF n > 255 THEN bad ELSE then(<< Chr(n) >>, i + 4)
                 ELSE ref(DigitVal(c) * 10 + DigitVal(At(t, i + 2)), i + 3)
            ELSE ref(DigitVal(c), i + 2)
       ELSE IF c \in DOMAIN EscapeCodes THEN then(<< Chr(EscapeCodes[c]) >>, i + 2)
       ELSE IF c = BSL THEN then(<< BSL >>, i + 2)
       \* an unknown escape of a letter: bad escape
       ELSE IF c \in AsciiLetters THEN bad
       ELSE then(<< BSL, c >>, i + 2)

ExpandTemplate(t, groups) == ExpandFrom(t, groups, 0)

\* re.sub(pattern, repl, s, 1, re.DOTALL): s with its first match replaced
\* by the expanded template, s itself when nothing matches; [ok, text], ok
\* FALSE when the template raises.
ReSub(repl, s) ==
    LET m == TableSearch(s)
    IN IF m.end = Fail THEN [ok |-> TRUE, text |-> s]
       ELSE LET e == ExpandTemplate(repl, << Group1(s, m), Group2(s, m) >>)
            IN IF e.ok
               THEN [ok |-> TRUE,
                     text |-> Slice(s, 0, m.start) \o e.text \o Slice(s, m.end, Len(s))]
               ELSE [ok |-> FALSE, text |-> s]

\* ---------------------------------------------------------------- inputs

\* The heading_text argument.
heading_text == << "T" >>

\* The lines the pages are made of: two heading lines (the second of another
\* level, with a space after the heading text), four lines that hold the
\* heading text without being the heading (other case, text after it, not at
\* the start of the line, a seventh level), a table header line, a table
\* body line, a body line with an empty cell, a line of text and an empty
\* line.
Lines ==
    { << "h", "1", ".", " ", "T", NL >>,
      << "h", "2", ".", " ", "T", " ", NL >>,
      << "h", "7", ".", " ", "T", NL >>,
      << "h", "1", ".", " ", "t", NL >>,
      << "h", "1", ".", " ", "T", "x", NL >>,
      << " ", "h", "1", ".", " ", "T", NL >>,
      << "|", "|", "A", "|", "|", "B", "|", "|", NL >>,
      << "|", "1", "|", "2", "|", NL >>,
      << "|", "1", "|", "|", "2", "|", NL >>,
      << "x", NL >>,
      << NL >> }

\* The most lines of a page drawn from Lines.
MaxLines == 3

\* The pages of exactly n lines.
RECURSIVE LineDocs(_)
LineDocs(n) ==
    IF n = 0 THEN { << >> }
    ELSE { d \o l : d \in LineDocs(n - 1), l \in Lines }

\* The scenario of the table's description: a Name/Status table under the
\* heading, with single-bar body lines.
ScenarioSpan ==
    << "|", "|", "N", "a", "m", "e", "|", "|", "S", "t", "a", "t", "u", "s", "|", "|", NL >>
    \o << "|", "A", "l", "i", "c", "e", "|", "O", "p", "e", "n", "|", NL >>
    \o << "|", "B", "o", "b", "|", "O", "p", "e", "n", "|", NL >>
ScenarioDoc == << "h", "1", ".", " ", "T", NL >> \o ScenarioSpan

\* Two heading+table blocks under the same heading text.
TwoTablesDoc ==
    << "h", "1", ".", " ", "T", NL >> \o << "|", "|", "A", "|", "|", NL >> \o << "|", "1", "|", NL >>
    \o << "h", "1", ".", " ", "T", NL >> \o << "|", "|", "B", "|", "|", NL >> \o << "|", "2", "|", NL >>

\* A table whose first header cell group holds two names, A and B.
MergeDoc == << "h", "1", ".", " ", "T", NL >> \o << "|", "A", "|", "B", "|", "|", NL >> \o << "|", "1", "|", "2", "|", "|", NL >>

\* A table between a preamble and a postamble, its body line with an empty
\* cell.
FramedDoc ==
    << "x", NL >> \o << "h", "1", ".", " ", "T", NL >> \o << "|", "|", "A", "|", "|", "B", "|", "|", NL >>
    \o << "|", "1", "|", "|", "2", "|", NL >> \o << "x", NL >>

\* A cell that holds a backslash (a Windows path).
PathDoc == << "h", "1", ".", " ", "T", NL >> \o << "|", "|", "A", "|", "|", NL >> \o << "|", "|", "C", ":", BSL, "d", "|", "|", NL >>

Documents ==
    UNION { LineDocs(n) : n \in 0..MaxLines }
    \cup { ScenarioDoc, TwoTablesDoc, MergeDoc, FramedDoc, PathDoc }

Status == << "S", "t", "a", "t", "u", "s" >>
Done == << "D", "o", "n", "e" >>

\* The update_fn arguments: one that returns its row unchanged, one that sets
\* Status on the row and returns it (as main's does), one that returns only
\* the field B.
UpdateFns == { "identity", "set_status", "partial" }

\* update_fn(row)
Apply(fn, row) ==
    CASE fn = "identity" -> row
      [] fn = "set_status" ->
            [k \in DOMAIN row \cup { Status } |-> IF k = Status THEN Done ELSE row[k]]
      [] fn = "partial" -> [k \in { << "B" >> } |-> << "X" >>]

\* get_table_data's return values.
None == [kind |-> "None", rows |-> << >>]
Unset == [kind |-> "unset", rows |-> << >>]

\* get_table_data(page_title, heading_text) on a page whose body is doc.
GetTableData(doc, h) ==
    LET hm == HeadingSearch(doc, h)
        rest == Slice(doc, hm.end, Len(doc))
        tm == TableSearch(rest)
        headers == ParseHeaders(Group1(rest, tm))
    IN IF hm.end = Fail THEN None
       ELSE IF tm.end = Fail THEN None
       ELSE [kind |-> "rows", rows |-> ParseRows(headers, Group2(rest, tm))]

\* ----------------------------------------------------------------- state

VARIABLES
    page,           \* the page body the page store holds
    update_fn,      \* the update_fn argument
    pc,             \* where main and update_confluence_table stand
    table_data,     \* what get_table_data returned to main
    page_data,      \* page_data['body']['storage']['value']
    heading_match,
    table_match,
    headers,
    rows,
    i,              \* the row the for loop is at
    table_markup,
    calls,          \* the calls update_confluence_table made, in order
    orig,           \* the page body before the run
    parsed,         \* the rows as parsed, before any update
    returned        \* what update_fn returned, call by call

vars == << page, update_fn, pc, table_data, page_data, heading_match, table_match,
           headers, rows, i, table_markup, calls, orig, parsed, returned >>

NoHeading == [start |-> Fail, end |-> Fail]

\* The text after the heading, page_data[...][heading_match.end():].
Rest == Slice(page_data, heading_match.end, Len(page_data))

Init ==
    /\ page \in Documents
    /\ update_fn \in UpdateFns
    /\ pc = "main"
    /\ table_data = Unset
    /\ page_data = << >>
    /\ heading_match = NoHeading
    /\ table_match = NoTable
    /\ headers = << >>
    /\ rows = << >>
    /\ i = 0
    /\ table_markup = << >>
    /\ calls = << >>
    /\ orig = page
    /\ parsed = << >>
    /\ returned = << >>

\* main: table_data = get_table_data(page_title, heading_text)
MainGetTableData ==
    /\ pc = "main"
    /\ table_data' = GetTableData(page, heading_text)
    /\ pc' = "start"
    /\ UNCHANGED << page, update_fn, page_data, heading_match, table_match, headers,
                    rows, i, table_markup, calls, orig, parsed, returned >>

\* page_data = confluence.get_page_by_title(...)
GetPage ==
    /\ pc = "start"
    /\ page_data' = page
    /\ calls' = Append(calls, [op |-> "get_page_by_title", row |-> 0])
    /\ pc' = "fetched"
    /\ UNCHANGED << page, update_fn, table_data, heading_match, table_match, headers,
                    rows, i, table_markup, orig, parsed, returned >>

\* heading_match = re.search(...); if heading_match:
SearchHeading ==
    /\ pc = "fetched"
    /\ heading_match' = HeadingSearch(page_data, heading_text)
    /\ pc' = IF heading_match'.end = Fail THEN "done" ELSE "heading"
    /\ UNCHANGED << page, update_fn, table_data, page_data, table_match, headers,
                    rows, i, table_markup, calls, orig, parsed, returned >>

\* The table search without its "if table_match:".
SearchTableUnchecked ==
    /\ pc = "heading"
    /\ table_match' = TableSearch(Rest)
    /\ pc' = "table"
    /\ UNCHANGED << page, update_fn, table_data, page_data, heading_match, headers,
                    rows, i, table_markup, calls, orig, parsed, returned >>

\* table_match = re.search(...); if table_match:
SearchTable ==
    /\ pc = "heading"
    /\ table_match' = TableSearch(Rest)
    /\ pc' = IF table_match'.end = Fail THEN "done" ELSE "table"
    /\ UNCHANGED << page, update_fn, table_data, page_data, heading_match, headers,
                    rows, i, table_markup, calls, orig, parsed, returned >>

\* headers = [...]; rows = [...]
ParseTable ==
    /\ pc = "table"
    /\ headers' = ParseHeaders(Group1(Rest, table_match))
    /\ rows' = ParseRows(headers', Group2(Rest, table_match))
    /\ parsed' = rows'
    /\ i' = 1
    /\ pc' = "loop"
    /\ UNCHANGED << page, update_fn, table_data, page_data, heading_match, table_match,
                    table_markup, calls, orig, returned >>

\* for row in rows: updated_row = update_fn(row); row.update(updated_row)
UpdateRow ==
    /\ pc = "loop"
    /\ i <= Len(rows)
    /\ LET updated_row == Apply(update_fn, rows[i])
       IN /\ rows' = [rows EXCEPT ![i] = DictUpdate(rows[i], updated_row)]
          /\ returned' = Append(returned, updated_row)
    /\ calls' = Append(calls, [op |-> "update_fn", row |-> i])
    /\ i' = i + 1
    /\ UNCHANGED << page, update_fn, pc, table_data, page_data, heading_match,
                    table_match, headers, table_markup, orig, parsed >>

\* table_markup = '||{}||\n{}'.format(...)
RenderMarkup ==
    /\ pc = "loop"
    /\ i > Len(rows)
    /\ table_markup' = RenderTable(headers, rows)
    /\ pc' = "rendered"
    /\ UNCHANGED << page, update_fn, table_data, page_data, heading_match, table_match,
                    headers, rows, i, calls, orig, parsed, returned >>

\* page_data[...] = page_data[...][:heading_match.end()] + re.sub(...); a
\* re.error of the template ends the run.
Substitute ==
    /\ pc = "rendered"
    /\ LET r == ReSub(table_markup, Rest)
       IN IF r.ok
          THEN /\ page_data' = Slice(page_data, 0, heading_match.end) \o r.text
               /\ pc' = "substituted"
          ELSE /\ page_data' = page_data
               /\ pc' = "raised"
    /\ UNCHANGED << page, update_fn, table_data, heading_match, table_match, headers,
                    rows, i, table_markup, calls, orig, parsed, returned >>

\* confluence.update_page_by_id(page_data['id'], data=page_data)
UpdatePage ==
    /\ pc = "substituted"
    /\ page' = page_data
    /\ calls' = Append(calls, [op |-> "update_page_by_id", row |-> 0])
    /\ pc' = "done"
    /\ UNCHANGED << update_fn, table_data, page_data, heading_match, table_match,
                    headers, rows, i, table_markup, orig, parsed, returned >>

Next ==
    \/ MainGetTableData
    \/ GetPage
    \/ SearchHeading
    \/ SearchTable
    \/ ParseTable
    \/ UpdateRow
    \/ RenderMarkup
    \/ Substitute
    \/ UpdatePage

Spec == Init /\ [][Next]_vars

\* ---------------------------------------------------- the page, by lines
\* What the properties below say about a page they say of its lines, read
\* without the regular expressions.

\* The offsets at which a line of doc starts.
LineStarts(doc) == { p \in 0..(Len(doc) - 1) : p = 0 \/ doc[p] = NL }

\* The line that starts at offset p, without its newline, when it has one.
Terminated(doc, p) == NextNewline(doc, p) # Fail
LineText(doc, p) == Slice(doc, p, NextNewline(doc, p))
LineStop(doc, p) == NextNewline(doc, p) + 1

\* A heading line: the marker at one of the six levels, one space, the
\* heading text, then nothing but whitespace.
IsHeadingLine(t, h) ==
    /\ Len(t) >= 4 + Len(h)
    /\ t[1] = "h" /\ t[2] \in {"1", "2", "3", "4", "5", "6"} /\ t[3] = "." /\ t[4] = SP
    /\ SubSeq(t, 5, 4 + Len(h)) = h
    /\ \A k \in (5 + Len(h))..Len(t) : IsSpace(t[k])

HeadingLineStarts(doc, h) ==
    { p \in LineStarts(doc) : Terminated(doc, p) /\ IsHeadingLine(LineText(doc, p), h) }

Least(S) == CHOOSE p \in S : \A q \in S : p <= q

\* A header line ||cell||...|| and a body line |cell|...|.
IsHeaderLine(t) ==
    Len(t) >= 4 /\ t[1] = BAR /\ t[2] = BAR /\ t[Len(t) - 1] = BAR /\ t[Len(t)] = BAR
IsBodyLine(t) == Len(t) >= 2 /\ t[1] = BAR /\ t[2] # BAR /\ t[Len(t)] = BAR

\* Where the run of body lines that starts at offset p stops.
RECURSIVE BodyRunStop(_, _)
BodyRunStop(doc, p) ==
    IF p < Len(doc) /\ Terminated(doc, p) /\ IsBodyLine(LineText(doc, p))
    THEN BodyRunStop(doc, LineStop(doc, p))
    ELSE p

\* A table block starts at offset p: a header line and at least one body line.
TableBlockAt(doc, p) ==
    /\ p < Len(doc) /\ Terminated(doc, p) /\ IsHeaderLine(LineText(doc, p))
    /\ BodyRunStop(doc, LineStop(doc, p)) > LineStop(doc, p)
TableBlockStop(doc, p) == BodyRunStop(doc, LineStop(doc, p))

\* A heading+table block starts at offset p.
HeadingTableAt(doc, p) ==
    p \in HeadingLineStarts(doc, heading_text) /\ TableBlockAt(doc, LineStop(doc, p))

\* The first heading line of doc is followed by a table block.
TableFollowsHeading(doc) ==
    LET hs == HeadingLineStarts(doc, heading_text)
    IN hs # {} /\ TableBlockAt(doc, LineStop(doc, Least(hs)))

\* s ends with t.
EndsWith(s, t) == Len(t) <= Len(s) /\ Slice(s, Len(s) - Len(t), Len(s)) = t

\* The run got as far as the searches, and found heading and table.
HeadingSearched == pc \notin {"main", "start", "fetched"}
Found == heading_match.end # Fail /\ table_match.end # Fail
Ended == pc \in {"done", "raised"}
Persisted == Len(calls) > 0 /\ calls[Len(calls)].op = "update_page_by_id"

\* The calls a whole run makes when heading and table are found.
FullCalls ==
    << [op |-> "get_page_by_title", row |-> 0] >>
    \o [k \in 1..Len(parsed) |-> [op |-> "update_fn", row |-> k]]
    \o << [op |-> "update_page_by_id", row |-> 0] >>

\* ----------------------------------------------------------------- claims

\* C1: for a page whose heading is followed by a table block, and an
\* update_fn that returns its row unchanged, the page body after the run
\* equals the original page body, character for character.
C1_RoundTrip ==
    (TableFollowsHeading(orig) /\ update_fn = "identity" /\ Ended) =>
        page = orig /\ page_data = orig

\* C2: for the span ||Name||Status|| / |Alice|Open| / |Bob|Open| after the
\* heading and an update_fn that sets Status to Done, the table is found and
\* the new span is ||Name||Status|| / |Alice|Done| / |Bob|Done|.
C2_Scenario ==
    (orig = ScenarioDoc /\ update_fn = "set_status" /\ Ended) =>
        /\ Found
        /\ page = << "h", "1", ".", " ", "T", NL >>
                  \o << "|", "|", "N", "a", "m", "e", "|", "|",
                        "S", "t", "a", "t", "u", "s", "|", "|", NL >>
                  \o << "|", "A", "l", "i", "c", "e", "|", "D", "o", "n", "e", "|", NL >>
                  \o << "|", "B", "o", "b", "|", "D", "o", "n", "e", "|", NL >>

\* C3: for a page preamble + heading line + table block + postamble, the new
\* page body starts with the original text up to the end of the heading line
\* and ends with the original postamble.
C3_UnrelatedContentPreserved ==
    LET q == LineStop(orig, Least(HeadingLineStarts(orig, heading_text)))
    IN TableFollowsHeading(orig) =>
           /\ Slice(page, 0, q) = Slice(orig, 0, q)
           /\ EndsWith(page, Slice(orig, TableBlockStop(orig, q), Len(orig)))

\* C4: for a page with two heading+table blocks under the same heading text,
\* the matched span does not reach past the first block, no more records are
\* parsed than the first table has body lines, and the page from the second
\* heading on is the same before and after.
C4_FirstMatchOnly ==
    LET hs == { p \in LineStarts(orig) : HeadingTableAt(orig, p) }
        p1 == Least(hs)
        p2 == Least(hs \ { p1 })
    IN (Cardinality(hs) >= 2 /\ p1 = Least(HeadingLineStarts(orig, heading_text))) =>
           /\ (HeadingSearched /\ Found) =>
                  /\ heading_match.end + table_match.end <= p2
                  /\ Len(parsed) <= Cardinality({ b \in LineStarts(orig) : b < p2 })
           /\ EndsWith(page, Slice(orig, p2, Len(orig)))

\* C5: the header names parsed from a table block are all the non-empty
\* trimmed cells of its header line, in their order, and the header line of
\* the rendered table lists exactly those names in that order.
C5_ColumnOrder ==
    (/\ TableFollowsHeading(orig)
     /\ pc \in {"loop", "rendered", "substituted", "raised", "done"}
     /\ Found) =>
        LET line == Slice(Rest, table_match.start, NextNewline(Rest, table_match.start))
            names == StripNonEmpty(Split(line, BAR))
        IN /\ IsHeaderLine(line)
           /\ headers = names
           /\ pc # "loop" =>
                  Slice(table_markup, 0, NextNewline(table_markup, 0))
                      = << BAR, BAR >> \o Join(<< BAR, BAR >>, names) \o << BAR, BAR >>

\* C6: the record used for rendering has, for each key, the value update_fn
\* returned for it when it returned one, and the parsed value otherwise; no
\* field of the parsed record is removed.  {A:1, B:2} with {B:X} returned
\* gives {A:1, B:X}.
C6_PartialUpdateMerge ==
    /\ \A n \in 1..Len(returned) :
           /\ DOMAIN rows[n] = DOMAIN parsed[n] \cup DOMAIN returned[n]
           /\ \A k \in DOMAIN returned[n] : rows[n][k] = returned[n][k]
           /\ \A k \in DOMAIN parsed[n] \ DOMAIN returned[n] : rows[n][k] = parsed[n][k]
    /\ (orig = MergeDoc /\ update_fn = "partial" /\ Len(returned) = 1) =>
           /\ parsed[1] = [k \in { << "A" >>, << "B" >> } |->
                               IF k = << "A" >> THEN << "1" >> ELSE << "2" >>]
           /\ rows[1] = [k \in { << "A" >>, << "B" >> } |->
                             IF k = << "A" >> THEN << "1" >> ELSE << "X" >>]
    /\ (pc \in {"rendered", "substituted", "raised", "done"} /\ Found) =>
           table_markup = RenderTable(headers, rows)

C6_Witness ==
    /\ pc = "done" /\ Persisted
    /\ orig = MergeDoc /\ update_fn = "partial"
    /\ DOMAIN returned[1] = { << "B" >> }
    /\ rows[1][<< "A" >>] = << "1" >> /\ rows[1][<< "B" >>] = << "X" >>

\* C7: when the page has no heading line, or has one but no table block
\* matches after it, update_confluence_table calls neither update_fn nor
\* update_page_by_id and leaves the page body, fetched and stored, as it was,
\* and get_table_data returns None.
C7_NotFoundNoOp ==
    LET hm == HeadingSearch(orig, heading_text)
        missing == hm.end = Fail \/ TableSearch(Slice(orig, hm.end, Len(orig))).end = Fail
    IN (HeadingLineStarts(orig, heading_text) = {} \/ missing) =>
           /\ \A n \in 1..Len(calls) : calls[n].op = "get_page_by_title"
           /\ Len(calls) <= 1
           /\ returned = << >>
           /\ page = orig
           /\ (pc \notin {"main", "start"} => page_data = orig)
           /\ pc \notin {"table", "loop", "rendered", "substituted", "raised"}
           /\ (pc # "main" => table_data = None)

C7_Witness ==
    /\ pc = "done"
    /\ heading_match.end # Fail /\ table_match.end = Fail
    /\ table_data = None
    /\ calls = << [op |-> "get_page_by_title", row |-> 0] >>
    /\ page = orig /\ page_data = orig

\* C8: the heading search finds a heading exactly when the page has a
\* heading line, and then the one it finds is the first heading line: the
\* match starts at that line (at the newline before it, when it has one) and
\* the search origin lies behind that line, only whitespace in between.
C8_HeadingIsolation ==
    HeadingSearched =>
        LET hs == HeadingLineStarts(page_data, heading_text)
            p == Least(hs)
        IN IF hs = {} THEN heading_match.end = Fail
           ELSE /\ heading_match.start = (IF p = 0 THEN 0 ELSE p - 1)
                /\ heading_match.end >= LineStop(page_data, p)
                /\ page_data[heading_match.end] = NL
                /\ \A k \in (LineStop(page_data, p) + 1)..heading_match.end :
                       IsSpace(page_data[k])

C8_Witness ==
    /\ pc = "heading"
    /\ heading_match.start > 0
    /\ \E k \in 1..heading_match.start : page_data[k] = "T"

\* C9: the text that replaces the matched span of a table block ends with a
\* newline, as the span did: the text after the table still starts its own
\* line.
C9_BlockTermination ==
    (TableFollowsHeading(orig) /\ Persisted /\ Found) =>
        LET after == Len(orig) - (heading_match.end + table_match.end)
        IN At(page, Len(page) - after - 1) = NL

\* C10: the page is fetched once, first; when heading and table are found,
\* update_fn is called once per parsed record in row order and then
\* update_page_by_id once, with the body built from the merged records.
C10_CallOrder ==
    /\ \A n \in 1..Len(calls) : calls[n] = FullCalls[n]
    /\ (Ended /\ Found) =>
           /\ calls = FullCalls
           /\ page = page_data

====
